---- MODULE Spec2Model ----
(***************************************************************************)
(* Model of matrix.py: MNA stamps, the singularity test, moments,         *)
(* regularize (permutation scan + Schur complement), mna_ckt_fun and the   *)
(* __main__ driver.                                                        *)
(*                                                                         *)
(* Numbers: numpy floats are modelled as exact rationals <<num, den>>      *)
(* (den > 0, lowest terms).  Matrices are records [r, c, e] with e a       *)
(* sequence of r rows of c entries, so that empty slices keep their shape *)
(* as numpy arrays do.  Code indices are 0-based; At/Put translate.        *)
(***************************************************************************)
EXTENDS Integers, Sequences, FiniteSets, TLC

\* ------------------------------------------------------------------ bounds
SmallDim == 3      \* a matrix dimension other than the one regularize assumes
MaxG == 2          \* stamped element values range over -MaxG..MaxG
MaxStamps == 1     \* number of stamps applied to the zeroed matrices
MaxN == 2          \* largest number of moments requested of moments()

\* ------------------------------------------------------- program constants
HardDim == 10          \* np.identity(10), i < 10, the :10 slice ends
LastIdx == 9           \* j = 9
InitialStateLen == 6   \* odeint initial state [0, 0, 0, 0, 0, 0]
InputLen == 2          \* u = [1.0, 0]
NumTimepoints == 1000  \* np.arange(0, 1e-9, 1e-12)
DriverN == 2           \* moments(G, C, B, L, 2)

NoVal == [none |-> TRUE]

\* ---------------------------------------------------------------- rationals
Abs(x) == IF x < 0 THEN -x ELSE x

RECURSIVE GCD(_, _)
GCD(a, b) == IF b = 0 THEN a ELSE GCD(b, a % b)

Rat(p, q) ==
    LET g == GCD(Abs(p), Abs(q))
        s == IF q < 0 THEN -1 ELSE 1
    IN  <<(s * p) \div g, (s * q) \div g>>

RInt(v) == <<v, 1>>
RZero == <<0, 1>>
ROne == <<1, 1>>
\* inf/nan, what a solve against an exactly singular LU factorization yields
RNaN == <<0, 0>>
IsNaN(a) == a[2] = 0
RAdd(a, b) == IF IsNaN(a) \/ IsNaN(b) THEN RNaN
              ELSE IF a[1] = 0 THEN b ELSE IF b[1] = 0 THEN a
              ELSE Rat(a[1] * b[2] + b[1] * a[2], a[2] * b[2])
RNeg(a) == <<-a[1], a[2]>>
RSub(a, b) == RAdd(a, RNeg(b))
RMul(a, b) == IF IsNaN(a) \/ IsNaN(b) THEN RNaN
              ELSE IF a[1] = 0 \/ b[1] = 0 THEN RZero
              ELSE Rat(a[1] * b[1], a[2] * b[2])
RDiv(a, b) == IF IsNaN(a) \/ IsNaN(b) \/ b[1] = 0 THEN RNaN
              ELSE IF a[1] = 0 THEN RZero
              ELSE Rat(a[1] * b[2], a[2] * b[1])
RAbsLess(a, b) == Abs(a[1]) * b[2] < Abs(b[1]) * a[2]

\* ----------------------------------------------------------------- matrices
\* the sequence s as an explicit tuple
Tuple(s) == SubSeq(s, 1, Len(s))

Mat(r, c, f(_, _)) ==
    [r |-> r, c |-> c,
     e |-> Tuple([i \in 1..r |-> Tuple([j \in 1..c |-> f(i, j)])])]

zeros(r, c) == LET z(i, j) == RZero IN Mat(r, c, z)

identity(n) == LET d(i, j) == IF i = j THEN ROne ELSE RZero IN Mat(n, n, d)

At(m, i, j) == m.e[i + 1][j + 1]

Put(m, i, j, v) == [m EXCEPT !.e[i + 1][j + 1] = v]

transpose(m) == LET t(i, j) == m.e[j][i] IN Mat(m.c, m.r, t)

negate(m) == LET t(i, j) == RNeg(m.e[i][j]) IN Mat(m.r, m.c, t)

minus(a, b) == LET t(i, j) == RSub(a.e[i][j], b.e[i][j]) IN Mat(a.r, a.c, t)

RECURSIVE DotSum(_, _, _, _, _)
DotSum(a, b, i, j, t) ==
    IF t = 0 THEN RZero
    ELSE RAdd(DotSum(a, b, i, j, t - 1), RMul(a.e[i][t], b.e[t][j]))

\* a.dot(b) for conforming shapes (callers test a.c = b.r first)
dot(a, b) == LET t(i, j) == DotSum(a, b, i, j, a.c) IN Mat(a.r, b.c, t)

Clip(x, hi) == IF x > hi THEN hi ELSE x

\* m[r0:r1, c0:c1] with numpy's clipping of slice ends
Slice(m, r0, r1, c0, c1) ==
    LET a == Clip(r0, m.r)
        b == IF Clip(r1, m.r) < a THEN a ELSE Clip(r1, m.r)
        p == Clip(c0, m.c)
        q == IF Clip(c1, m.c) < p THEN p ELSE Clip(c1, m.c)
        t(i, j) == m.e[a + i][p + j]
    IN  Mat(b - a, q - p, t)

\* m[:, [i, j]] = m[:, [j, i]]
SwapCols(m, i, j) ==
    LET t(r, c) == IF c = i + 1 THEN m.e[r][j + 1]
                   ELSE IF c = j + 1 THEN m.e[r][i + 1] ELSE m.e[r][c]
    IN  Mat(m.r, m.c, t)

\* ------------------------------------------------------------------- stamps
\* m[i, j] += v
AddAt(m, i, j, v) == Put(m, i, j, RAdd(At(m, i, j), v))

\* stamp with the off-diagonal update of m[i, j] added instead of subtracted
stamp_offdiag_added(m, i, args) ==
    IF Len(args) = 1
    THEN AddAt(m, i, i, RInt(args[1]))
    ELSE LET j == args[1]
             g == RInt(args[2])
             m1 == AddAt(m, i, i, g)
             m2 == AddAt(m1, j, j, g)
             m3 == AddAt(m2, i, j, g)
         IN  AddAt(m3, j, i, RNeg(g))

\* stamp(m, i, *args): args = <<g>> (lumped to ground) or <<j, g>> (branch)
stamp(m, i, args) ==
    IF Len(args) = 1
    THEN AddAt(m, i, i, RInt(args[1]))
    ELSE LET j == args[1]
             g == RInt(args[2])
             m1 == AddAt(m, i, i, g)
             m2 == AddAt(m1, j, j, g)
             m3 == AddAt(m2, i, j, RNeg(g))
         IN  AddAt(m3, j, i, RNeg(g))

stamp_i(m, v, i) == Put(Put(m, v, i, ROne), i, v, RNeg(ROne))

\* ----------------------------------------------------------- linear algebra
Ok(v) == [exc |-> "none", val |-> v]
Raise(e) == [exc |-> e, val |-> NoVal]

\* row index in r..Len(rows) with the entry of largest magnitude in column col
\* (LAPACK partial pivoting), lowest index on ties
RECURSIVE PivotRow(_, _, _, _)
PivotRow(rows, col, i, best) ==
    IF i > Len(rows) THEN best
    ELSE PivotRow(rows, col, i + 1,
                  IF RAbsLess(rows[best][col], rows[i][col]) THEN i ELSE best)

\* Gauss-Jordan elimination on the first npc columns of rows, from pivot row r
RECURSIVE Eliminate(_, _, _, _)
Eliminate(rows, col, r, npc) ==
    IF col > npc \/ r > Len(rows) THEN [rows |-> rows, rank |-> r - 1]
    ELSE LET p == PivotRow(rows, col, r, r)
         IN  IF rows[p][col] = RZero THEN Eliminate(rows, col + 1, r, npc)
             ELSE LET piv == rows[p][col]
                      prow == Tuple([j \in 1..Len(rows[p]) |-> RDiv(rows[p][j], piv)])
                      other(i) == IF i = p THEN rows[r] ELSE rows[i]
                      new == Tuple([i \in 1..Len(rows) |->
                                IF i = r THEN prow
                                ELSE LET f == other(i)[col]
                                     IN  IF f = RZero THEN other(i)
                                         ELSE Tuple([j \in 1..Len(prow) |->
                                                 RSub(other(i)[j], RMul(f, prow[j]))])])
                  IN  Eliminate(new, col + 1, r + 1, npc)

\* np.linalg.matrix_rank: the numeric rank (SVD with tolerance) is modelled
\* as the exact rank
matrix_rank(m) == Eliminate(m.e, 1, 1, m.c).rank

\* isSingular reporting every square matrix as nonsingular
isSingular_never(m) ==
    IF m.r # m.c THEN Raise("ValueError")
    ELSE IF m.r = 0 THEN Raise("LinAlgError")
    ELSE Ok(FALSE)

\* isSingular(m): ValueError unless square; matrix_rank raises on an empty array
isSingular(m) ==
    IF m.r # m.c THEN Raise("ValueError")
    ELSE IF m.r = 0 THEN Raise("LinAlgError")
    ELSE Ok(matrix_rank(m) # m.r)

\* the unique x with a.x = b, for square nonsingular a
SolveRows(a, b) ==
    LET aug == Tuple([i \in 1..a.r |-> a.e[i] \o b.e[i]])
        red == Eliminate(aug, 1, 1, a.c).rows
        t(i, j) == red[i][a.c + j]
    IN  Mat(a.r, b.c, t)

NaNs(r, c) == LET t(i, j) == RNaN IN Mat(r, c, t)

\* np.linalg.solve(a, b): LinAlgError on a singular a
solve(a, b) ==
    IF a.r # a.c \/ a.r # b.r THEN Raise("ValueError")
    ELSE IF a.r > 0 /\ matrix_rank(a) # a.r THEN Raise("LinAlgError")
    ELSE Ok(SolveRows(a, b))

\* lu_factor working in place (overwrite_a=True): the caller's array is left
\* holding the eliminated rows
lu_factor_overwriting(a) ==
    [lu |-> a, a |-> [a EXCEPT !.e = Eliminate(a.e, 1, 1, a.c).rows]]

\* sp.linalg.lu_factor(a), overwrite_a=False: the factorization handle (the
\* matrix it solves against) and the caller's array as it is left behind
lu_factor(a) == [lu |-> a, a |-> a]

\* sp.linalg.lu_solve(lu, b): a zero pivot only warns at lu_factor, and the
\* solve then divides by it
lu_solve(lu, b) ==
    IF matrix_rank(lu) # lu.r THEN NaNs(b.r, b.c) ELSE SolveRows(lu, b)

RECURSIVE matrix_power(_, _)
matrix_power(a, i) == IF i = 0 THEN identity(a.r) ELSE dot(matrix_power(a, i - 1), a)

\* ---------------------------------------------------------------- moments
\* events: the singularity tests and the solves/factorizations a call makes,
\* in program order
Ev(op, m) == [op |-> op, m |-> m]

\* the list starting at the exponent 1 instead of 0
MomentListFromOne(A, R, L, N) ==
    Tuple([i \in 1..N |-> dot(dot(transpose(L), matrix_power(A, i)), R)])

\* [L^T . A^i . R : i in 0..N-1]
MomentList(A, R, L, N) ==
    Tuple([i \in 1..N |-> dot(dot(transpose(L), matrix_power(A, i - 1)), R)])

\* moments(G, C, B, L, N)
moments(g, c, b, l, n) ==
    LET s == isSingular(g)
    IN  IF s.exc # "none" THEN [exc |-> s.exc, val |-> NoVal, ev |-> <<Ev("isSingular", g)>>]
        ELSE IF s.val
        THEN [exc |-> "ValueError: Supplied G matrix is singular, cannot invert",
              val |-> NoVal, ev |-> <<Ev("isSingular", g)>>]
        ELSE LET A == solve(negate(g), c)
                 R == solve(g, b)
             IN  IF A.exc # "none"
                 THEN [exc |-> A.exc, val |-> NoVal,
                       ev |-> <<Ev("isSingular", g), Ev("solve", negate(g))>>]
                 ELSE IF R.exc # "none"
                 THEN [exc |-> R.exc, val |-> NoVal,
                       ev |-> <<Ev("isSingular", g), Ev("solve", negate(g)),
                                Ev("solve", g)>>]
                 ELSE [exc |-> "none",
                       val |-> [A |-> A.val, R |-> R.val,
                                list |-> MomentList(A.val, R.val, l, n)],
                       ev |-> <<Ev("isSingular", g), Ev("solve", negate(g)),
                                Ev("solve", g)>>]

\* -------------------------------------------------------------- regularize
\* np.all(C == 0, axis=1)
zero_rows(c) == Tuple([i \in 1..c.r |-> \A j \in 1..c.c : c.e[i][j] = RZero])

IndexError == -1

\* while i < 10 and not zero_rows[i]: i += 1
RECURSIVE AdvanceI(_, _)
AdvanceI(zr, i) ==
    IF i < HardDim
    THEN IF i >= Len(zr) THEN IndexError
         ELSE IF ~zr[i + 1] THEN AdvanceI(zr, i + 1) ELSE i
    ELSE i

\* the backward search stepping over nonzero rows instead of zero rows
RECURSIVE RetreatJ_negated(_, _)
RetreatJ_negated(zr, j) ==
    IF j > 0
    THEN IF j >= Len(zr) THEN IndexError
         ELSE IF ~zr[j + 1] THEN RetreatJ_negated(zr, j - 1) ELSE j
    ELSE j

\* while (j > 0) and zero_rows[j]: j -= 1
RECURSIVE RetreatJ(_, _)
RetreatJ(zr, j) ==
    IF j > 0
    THEN IF j >= Len(zr) THEN IndexError
         ELSE IF zr[j + 1] THEN RetreatJ(zr, j - 1) ELSE j
    ELSE j

\* the scan without the j -= 1 after an exchange
RECURSIVE ScanLoop_keepJ(_, _, _, _)
ScanLoop_keepJ(zr, p, i, j) ==
    IF i < j
    THEN LET i2 == AdvanceI(zr, i)
         IN  IF i2 = IndexError THEN Raise("IndexError")
             ELSE LET j2 == RetreatJ(zr, j)
                  IN  IF j2 = IndexError THEN Raise("IndexError")
                      ELSE IF i2 < j2
                      THEN ScanLoop_keepJ(zr, SwapCols(p, i2, j2), i2 + 1, j2)
                      ELSE ScanLoop_keepJ(zr, p, i2, j2)
    ELSE Ok(p)

\* the while i < j loop, from the state (P, i, j)
RECURSIVE ScanLoop(_, _, _, _)
ScanLoop(zr, p, i, j) ==
    IF i < j
    THEN LET i2 == AdvanceI(zr, i)
         IN  IF i2 = IndexError THEN Raise("IndexError")
             ELSE LET j2 == RetreatJ(zr, j)
                  IN  IF j2 = IndexError THEN Raise("IndexError")
                      ELSE IF i2 < j2
                      THEN ScanLoop(zr, SwapCols(p, i2, j2), i2 + 1, j2 - 1)
                      ELSE ScanLoop(zr, p, i2, j2)
    ELSE Ok(p)

\* step 1: P = identity(10); j = 9; i = 0; the scan
ScanP(zr) == ScanLoop(zr, identity(HardDim), 0, LastIdx)

\* sum(1 for r in zero_rows if not r)
nonzero_count(zr) == Cardinality({i \in 1..Len(zr) : ~zr[i]})

\* steps 2 and 3 up to Creg: the permuted matrices and their partition
Partition(p, g, c, b, l, zr) ==
    IF p.c # c.r \/ p.c # g.r \/ p.c # b.r \/ p.c # l.r \/ c.c # p.r \/ g.c # p.r
    THEN Raise("ValueError: shapes not aligned")
    ELSE LET CPm == dot(dot(p, c), p)
             GPm == dot(dot(p, g), p)
             BPm == dot(p, b)
             LPm == dot(p, l)
             k == nonzero_count(zr)
         IN  Ok([CP |-> CPm, GP |-> GPm, BP |-> BPm, LP |-> LPm, k |-> k,
                 G11 |-> Slice(GPm, 0, k, 0, k),
                 G12 |-> Slice(GPm, 0, k, k, HardDim),
                 G21 |-> Slice(GPm, k, HardDim, 0, k),
                 G22 |-> Slice(GPm, k, HardDim, k, HardDim),
                 L1 |-> Slice(LPm, 0, k, 0, LPm.c),
                 L2 |-> Slice(LPm, k, HardDim, 0, LPm.c),
                 B1 |-> Slice(BPm, 0, k, 0, BPm.c),
                 B2 |-> Slice(BPm, k, HardDim, 0, BPm.c),
                 Creg |-> Slice(CPm, 0, k, 0, k)])

\* if isSingular(G22): raise ValueError("Cannot invert G22")
CheckG22(G22) ==
    LET s == isSingular(G22)
    IN  IF s.exc # "none" THEN Raise(s.exc)
        ELSE IF s.val THEN Raise("ValueError: Cannot invert G22")
        ELSE Ok(TRUE)

\* lines 116-124: the reduced system
Reduce(pt) ==
    LET g22lu == lu_factor(pt.G22).lu
        G22invG21 == lu_solve(g22lu, pt.G21)
        G22invB2 == lu_solve(g22lu, pt.B2)
    IN  [Greg |-> minus(pt.G11, dot(pt.G12, G22invG21)),
         Creg |-> pt.Creg,
         Breg |-> minus(pt.B1, dot(pt.G12, G22invB2)),
         Lreg |-> transpose(minus(transpose(pt.L1),
                                  dot(transpose(pt.L2), G22invG21)))]

\* ------------------------------------------------------------- mna_ckt_fun
\* __init__: drift = C^-1 . (-G), inTerm = C^-1 . B; no singularity test
ckt_init(g, c, b) ==
    LET C_lu == lu_factor(c)
    IN  [drift |-> lu_solve(C_lu.lu, negate(g)),
         inTerm |-> lu_solve(C_lu.lu, b),
         C |-> C_lu.a]

\* ------------------------------------------------------------------- state
VARIABLES
    G, C, B, L,   \* the caller's MNA matrices
    N,            \* number of moments requested
    pc,           \* position of the caller
    exc,          \* the exception that ended the run, or "none"
    mom,          \* moments(): [A, R, list], or NoVal
    P,            \* regularize: the permutation matrix after the scan, or NoVal
    part,         \* regularize: permuted matrices and partition blocks, or NoVal
    reg,          \* the tuple (Greg, Creg, Breg, Lreg) regularize returned, or NoVal
    ckt,          \* the mna_ckt_fun object [drift, inTerm], or NoVal
    events,       \* singularity tests and solves/factorizations, in program order
    out,          \* [stderr: items written, stdout: number of lines written]
    nstamps,      \* stamps applied so far
    last          \* the last stamp applied, or NoVal

vars == <<G, C, B, L, N, pc, exc, mom, P, part, reg, ckt, events, out, nstamps, last>>

\* ----------------------------------------------------------------- circuits
\* A netlist is a sequence of stamp calls: [k, i, j, g] with k one of
\* "G1" stamp(G, i, g), "G2" stamp(G, i, j, g), "C1" stamp(C, i, g),
\* "C2" stamp(C, i, j, g), "I" stamp_i(G, i, j)
El(k, i, j, g) == [k |-> k, i |-> i, j |-> j, g |-> g]

ApplyEl(ms, el) ==
    IF el.k = "G1" THEN [ms EXCEPT !.G = stamp(ms.G, el.i, <<el.g>>)]
    ELSE IF el.k = "G2" THEN [ms EXCEPT !.G = stamp(ms.G, el.i, <<el.j, el.g>>)]
    ELSE IF el.k = "C1" THEN [ms EXCEPT !.C = stamp(ms.C, el.i, <<el.g>>)]
    ELSE IF el.k = "C2" THEN [ms EXCEPT !.C = stamp(ms.C, el.i, <<el.j, el.g>>)]
    ELSE [ms EXCEPT !.G = stamp_i(ms.G, el.i, el.j)]

RECURSIVE Build(_, _)
Build(ms, nl) == IF nl = <<>> THEN ms ELSE Build(ApplyEl(ms, Head(nl)), Tail(nl))

\* G and C of dimension n stamped from zero by the netlist nl
Stamped(n, nl) == Build([G |-> zeros(n, n), C |-> zeros(n, n)], nl)

\* lumped stamps of kind k and value g on the nodes of S, in index order
RECURSIVE Lumped(_, _, _, _, _)
Lumped(k, S, g, i, n) ==
    IF i = n THEN <<>>
    ELSE (IF i \in S THEN <<El(k, i, i, g)>> ELSE <<>>) \o Lumped(k, S, g, i + 1, n)

\* unit resistors between nodes t-1 and t, t in 1..last
Chain(lastNode) == Tuple([t \in 1..lastNode |-> El("G2", t - 1, t, 1)])

\* an n x 1 matrix with the single entry v at row i
Column(n, i, v) == Put(zeros(n, 1), i, 0, RInt(v))

Idle ==
    /\ exc = "none" /\ mom = NoVal /\ P = NoVal /\ part = NoVal /\ reg = NoVal
    /\ ckt = NoVal /\ events = <<>> /\ out = [stderr |-> <<>>, stdout |-> 0]
    /\ nstamps = 0 /\ last = NoVal

\* ------------------------------------------------------------ stamp builder
Vals == (-MaxG)..MaxG
Nodes(m) == 0..(m.r - 1)

\* G = np.zeros(...), C = np.zeros(...): the caller's zeroed matrices
InitStamp ==
    /\ G = zeros(SmallDim, SmallDim) /\ C = zeros(SmallDim, SmallDim)
    /\ B = zeros(SmallDim, 1) /\ L = zeros(SmallDim, 1)
    /\ N = 0 /\ pc = "build" /\ Idle

StampFrame == UNCHANGED <<B, L, N, pc, exc, mom, P, part, reg, ckt, events, out>>

\* stamp(m, i, g) on G or on C
StampLumped ==
    /\ pc = "build" /\ nstamps < MaxStamps
    /\ \E t \in {"G", "C"}, i \in Nodes(G), g \in Vals :
         /\ G' = IF t = "G" THEN stamp(G, i, <<g>>) ELSE G
         /\ C' = IF t = "C" THEN stamp(C, i, <<g>>) ELSE C
         /\ last' = [op |-> "lumped", t |-> t, i |-> i, j |-> i, g |-> g]
    /\ nstamps' = nstamps + 1
    /\ StampFrame

\* stamp(m, i, j, g) on G or on C
StampBranch ==
    /\ pc = "build" /\ nstamps < MaxStamps
    /\ \E t \in {"G", "C"}, i \in Nodes(G), j \in Nodes(G), g \in Vals :
         /\ G' = IF t = "G" THEN stamp(G, i, <<j, g>>) ELSE G
         /\ C' = IF t = "C" THEN stamp(C, i, <<j, g>>) ELSE C
         /\ last' = [op |-> "branch", t |-> t, i |-> i, j |-> j, g |-> g]
    /\ nstamps' = nstamps + 1
    /\ StampFrame

\* stamp_i(G, v, i)
StampI ==
    /\ pc = "build" /\ nstamps < MaxStamps
    /\ \E v \in Nodes(G), i \in Nodes(G) :
         /\ G' = stamp_i(G, v, i)
         /\ last' = [op |-> "stamp_i", t |-> "G", i |-> v, j |-> i, g |-> 1]
    /\ C' = C
    /\ nstamps' = nstamps + 1
    /\ StampFrame

NextStamp == StampLumped \/ StampBranch \/ StampI

SpecStamp == InitStamp /\ [][NextStamp]_vars

Target == IF last.t = "G" THEN G ELSE C

OneBranchStamp == nstamps = 1 /\ last # NoVal /\ last.op = "branch" /\ last.i # last.j

\* C1: after one two-terminal stamp stamp(m, i, j, g), i # j, on a zeroed matrix,
\* for every g (positive, zero or negative), each row of the 2x2 submatrix at
\* rows/columns {i, j} sums to zero: m[i,i] + m[i,j] = 0 and m[j,i] + m[j,j] = 0.
C1_RowSumsZero ==
    OneBranchStamp =>
        /\ RAdd(At(Target, last.i, last.i), At(Target, last.i, last.j)) = RZero
        /\ RAdd(At(Target, last.j, last.i), At(Target, last.j, last.j)) = RZero

C1_Witness ==
    /\ OneBranchStamp /\ last.g < 0
    /\ At(Target, last.i, last.i) = RInt(last.g)
    /\ At(Target, last.i, last.j) = RInt(-last.g)

\* ------------------------------------------------------------ library calls
Fail(e) == pc' = "failed" /\ exc' = e

\* block_moments = moments(G, C, B, L, N)
Moments ==
    /\ pc = "moments"
    /\ LET r == moments(G, C, B, L, N)
       IN  /\ events' = events \o r.ev
           /\ IF r.exc # "none"
              THEN Fail(r.exc) /\ mom' = mom
              ELSE pc' = "print_moments" /\ exc' = exc /\ mom' = r.val
    /\ UNCHANGED <<G, C, B, L, N, P, part, reg, ckt, out, nstamps, last>>

\* regularize, step 1 (lines 77-91): zero_rows and the two-pointer scan
RegScan ==
    /\ pc = "regularize"
    /\ LET r == ScanP(zero_rows(C))
       IN  IF r.exc # "none"
           THEN Fail(r.exc) /\ P' = P
           ELSE pc' = "permute" /\ exc' = exc /\ P' = r.val
    /\ UNCHANGED <<G, C, B, L, N, mom, part, reg, ckt, events, out, nstamps, last>>

\* regularize, steps 2-3 (lines 94-112): permute and partition
RegPermute ==
    /\ pc = "permute"
    /\ LET r == Partition(P, G, C, B, L, zero_rows(C))
       IN  IF r.exc # "none"
           THEN Fail(r.exc) /\ part' = part
           ELSE pc' = "check" /\ exc' = exc /\ part' = r.val
    /\ UNCHANGED <<G, C, B, L, N, mom, P, reg, ckt, events, out, nstamps, last>>

\* regularize, lines 114-115: the G22 precondition
RegCheck ==
    /\ pc = "check"
    /\ events' = Append(events, Ev("isSingular", part.G22))
    /\ LET r == CheckG22(part.G22)
       IN  IF r.exc # "none"
           THEN Fail(r.exc)
           ELSE pc' = "reduce" /\ exc' = exc
    /\ UNCHANGED <<G, C, B, L, N, mom, P, part, reg, ckt, out, nstamps, last>>

\* regularize, lines 116-124: factor G22, reduce, return.  With no dynamic
\* state (k = 0) the solves get right-hand sides of shape (n, 0); whether
\* LAPACK's wrapper accepts an empty array depends on the scipy build.
RegReduce ==
    /\ pc = "reduce"
    /\ events' = Append(events, Ev("lu_factor", part.G22))
    /\ \E emptyOk \in BOOLEAN :
         IF part.k = 0 /\ ~emptyOk
         THEN Fail("ValueError: empty right-hand side") /\ reg' = reg
         ELSE pc' = "ckt_fun" /\ exc' = exc /\ reg' = Reduce(part)
    /\ UNCHANGED <<G, C, B, L, N, mom, P, part, ckt, out, nstamps, last>>

\* ckt_fun = mna_ckt_fun(Greg, Creg, Breg); an empty Creg is accepted by
\* lu_factor or not depending on the scipy build
CktFun ==
    /\ pc = "ckt_fun"
    /\ events' = Append(events, Ev("lu_factor", reg.Creg))
    /\ \E emptyOk \in BOOLEAN :
         IF reg.Creg.r = 0 /\ ~emptyOk
         THEN Fail("ValueError: empty matrix") /\ ckt' = ckt /\ reg' = reg
         ELSE LET o == ckt_init(reg.Greg, reg.Creg, reg.Breg)
              IN  /\ pc' = "odeint" /\ exc' = exc
                  /\ ckt' = [drift |-> o.drift, inTerm |-> o.inTerm]
                  /\ reg' = [reg EXCEPT !.Creg = o.C]
    /\ UNCHANGED <<G, C, B, L, N, mom, P, part, out, nstamps, last>>

\* ------------------------------------------------------------------ driver
\* print >> sys.stderr of the first two moments (lines 191-194); the driver
\* asks for two
PrintMoments ==
    /\ pc = "print_moments"
    /\ pc' = "regularize"
    /\ out' = [out EXCEPT !.stderr =
                 <<"moment 0=", mom.list[1], "moment 1=", mom.list[2]>>]
    /\ UNCHANGED <<G, C, B, L, N, exc, mom, P, part, reg, ckt, events, nstamps, last>>

\* odeint(ckt_fun, [0, 0, 0, 0, 0, 0], timepoints): the functor computes
\* drift.dot(x) + inTerm.dot(u) with x of length 6 and u of length 2
Odeint ==
    /\ pc = "odeint"
    /\ IF ckt.drift.c # InitialStateLen \/ ckt.inTerm.c # InputLen
       THEN Fail("ValueError: shapes not aligned")
       ELSE pc' = "print_outputs" /\ exc' = exc
    /\ UNCHANGED <<G, C, B, L, N, mom, P, part, reg, ckt, events, out, nstamps, last>>

\* for (t, x) in zip(timepoints, xarr): print t, y[0], y[1]; the driver's L
\* has two columns.  The values printed are those of the integrator and are
\* not modelled, only the number of lines.
PrintOutputs ==
    /\ pc = "print_outputs"
    /\ pc' = "done"
    /\ out' = [out EXCEPT !.stdout = NumTimepoints]
    /\ UNCHANGED <<G, C, B, L, N, exc, mom, P, part, reg, ckt, events, nstamps, last>>

\* The driver's circuit (lines 147-188), with element values as inputs.
\* Units: conductances in mS, capacitances in 10 fF.
Gdrv == 10     \* 1.0 / rdrv, rdrv = 0.1 kohm
Gpi == 1       \* 1.0 / pi_r, pi_r = 1.0 kohm
HalfPiC == 5   \* pi_c / 2, pi_c = 100 fF
CouplC == 10   \* coupl_c = 100 fF
RcvrC == 2     \* rcvr_c = 20 fF

DriverNetlist(aggNode, gpi, pic, coupl, rcvr) ==
    << El("I", aggNode, 8, 1),
       El("G2", 0, 1, Gdrv),
       El("C1", 1, 1, pic),
       El("G2", 1, 2, gpi),
       El("C1", 2, 2, pic),
       El("C1", 2, 2, pic),
       El("G2", 2, 3, gpi),
       El("C1", 3, 3, pic),
       El("C1", 3, 3, rcvr),
       El("I", 4, 9, 1),
       El("G2", 4, 5, Gdrv),
       El("C1", 5, 5, pic),
       El("G2", 5, 6, gpi),
       El("C1", 6, 6, pic),
       El("C1", 6, 6, pic),
       El("G2", 6, 7, gpi),
       El("C1", 7, 7, pic),
       El("C1", 7, 7, rcvr),
       El("C2", 2, 6, coupl) >>

\* B[8, 0] = -1; B[9, 1] = -1
DriverB == Put(Put(zeros(HardDim, 2), 8, 0, RInt(-1)), 9, 1, RInt(-1))

\* L[3, 0] = 1; L[7, 1] = 1
DriverL == Put(Put(zeros(HardDim, 2), 3, 0, ROne), 7, 1, ROne)

\* the state at line 190, after the stamps
Init ==
    /\ \E aggNode \in {0, 1}, gpi \in {0, Gpi}, pic \in {0, HalfPiC},
          coupl \in {0, CouplC}, rcvr \in {0, RcvrC} :
         LET ms == Stamped(HardDim, DriverNetlist(aggNode, gpi, pic, coupl, rcvr))
         IN  G = ms.G /\ C = ms.C
    /\ B = DriverB /\ L = DriverL
    /\ N = DriverN /\ pc = "moments" /\ Idle

Next ==
    \/ Moments
    \/ PrintMoments
    \/ RegScan
    \/ RegPermute
    \/ RegCheck
    \/ RegReduce
    \/ CktFun
    \/ Odeint
    \/ PrintOutputs

Spec == Init /\ [][Next]_vars

\* ----------------------------------------------- the library called directly
\* Callers' circuits of dimension n, stamped from zero:
\*   "rc"    a chain of unit resistors over all nodes, node 0 grounded through
\*           a unit resistor, a current input at node 0
\*   "src"   a voltage source at node 0 (branch current n-1) and a chain over
\*           the nodes 0..n-2
\*   "float" the chain of "rc" with no path to ground
\* with unit capacitors to ground on the nodes of caps; one output at outNode.
Dims == {SmallDim, HardDim}

CapSets(n) ==
    IF n = HardDim
    THEN {{}, 0..9, 0..8, 1..9, {1, 2, 3, 5, 6, 7}, {2, 6}, {0, 9}}
    ELSE SUBSET (0..(n - 1))

Topologies == {"rc", "src", "float"}

OutNodes(n) == {0, n - 2, n - 1}

LibNetlist(n, caps, gv) ==
    (IF gv = "rc" THEN Chain(n - 1) \o <<El("G1", 0, 0, 1)>>
     ELSE IF gv = "src" THEN <<El("I", 0, n - 1, 1)>> \o Chain(n - 2)
     ELSE Chain(n - 1))
    \o Lumped("C1", caps, 1, 0, n)

LibB(n, gv) == IF gv = "src" THEN Column(n, n - 1, -1) ELSE Column(n, 0, 1)

LibCircuit(n, caps, gv, outNode) ==
    LET ms == Stamped(n, LibNetlist(n, caps, gv))
    IN  /\ G = ms.G /\ C = ms.C
        /\ B = LibB(n, gv) /\ L = Column(n, outNode, 1)

\* a caller about to call moments(G, C, B, L, N) or regularize(G, C, B, L)
InitLib ==
    /\ \E n \in Dims : \E caps \in CapSets(n), gv \in Topologies, o \in OutNodes(n) :
         LibCircuit(n, caps, gv, o)
    /\ \/ pc = "moments" /\ N \in 0..MaxN
       \/ pc = "regularize" /\ N = 0
    /\ Idle

NextLib ==
    \/ Moments
    \/ RegScan
    \/ RegPermute
    \/ RegCheck
    \/ RegReduce

SpecLib == InitLib /\ [][NextLib]_vars

\* a caller about to call regularize, C having any set of zero rows
InitScan ==
    /\ \E n \in Dims : \E caps \in SUBSET (0..(n - 1)) :
         LibCircuit(n, caps, "rc", n - 1)
    /\ pc = "regularize" /\ N = 0
    /\ Idle

NextScan ==
    \/ RegScan
    \/ RegPermute

SpecScan == InitScan /\ [][NextScan]_vars

\* ------------------------------------------------------------------ claims
Singular(m) == matrix_rank(m) # m.r

G22Error == "ValueError: Cannot invert G22"
GError == "ValueError: Supplied G matrix is singular, cannot invert"

\* a call of regularize has ended, by return or by exception
RegEnded == pc = "ckt_fun" \/ (pc = "failed" /\ exc # GError)

C3_PInvolution == P # NoVal => dot(P, P) = identity(HardDim)

\* a scan that exchanged columns, on a mask with several zero rows above
\* nonzero ones
C3_Witness ==
    /\ P # NoVal /\ P # identity(HardDim)
    /\ Cardinality({i \in 1..C.r : zero_rows(C)[i]}) >= 3
    /\ dot(P, P) = identity(HardDim)

\* the index P maps position r to
PermOf(r) == CHOOSE c \in 1..P.c : P.e[r][c] = ROne

NonZeroRows == {i \in 1..C.r : \E j \in 1..C.c : C.e[i][j] # RZero}

\* C4: with k the number of rows of C that are not all-zero, rows 0..k-1 of
\* CP = P.C.P are the rows of C that are not all-zero (rows and columns
\* reordered by P) and rows k..n-1 of CP are all-zero.
C4_ZeroRowsTrailing ==
    part # NoVal =>
        LET k == Cardinality(NonZeroRows)
            CPm == part.CP
        IN  /\ \A r \in 1..CPm.r : \A c \in 1..CPm.c :
                  CPm.e[r][c] = C.e[PermOf(r)][PermOf(c)]
            /\ {PermOf(r) : r \in 1..k} = NonZeroRows
            /\ \A r \in (k + 1)..CPm.r : \A c \in 1..CPm.c : CPm.e[r][c] = RZero
            /\ \A r \in 1..k : \E c \in 1..CPm.c : CPm.e[r][c] # RZero

\* zero rows had to move: some zero row of C lies above a nonzero one
C4_Witness ==
    /\ part # NoVal
    /\ \E i \in 1..C.r : \E j \in (i + 1)..C.r : i \notin NonZeroRows /\ j \in NonZeroRows
    /\ Cardinality(NonZeroRows) \in 2..(C.r - 2)
    /\ \A c \in 1..part.CP.c : part.CP.e[part.CP.r][c] = RZero

\* L^T . G^-1 . B
DCTransfer(g, b, l) == dot(transpose(l), solve(g, b).val)

\* the rows/columns of G of the zero-capacitance state variables, in index order
RECURSIVE IndexSeq(_, _, _)
IndexSeq(S, i, n) ==
    IF i > n THEN <<>> ELSE (IF i \in S THEN <<i>> ELSE <<>>) \o IndexSeq(S, i + 1, n)

G22Block ==
    LET idx == IndexSeq((1..C.r) \ NonZeroRows, 1, C.r)
        t(i, j) == G.e[idx[i]][idx[j]]
    IN  Mat(Len(idx), Len(idx), t)

\* C5: for a system with singular C (an all-zero row) and nonsingular G (and
\* solvable algebraic block G22), regularize returns a tuple with
\* Lreg^T.Greg^-1.Breg = L^T.G^-1.B, on 3-state systems in particular.
C5_DCTransferPreserved ==
    (RegEnded /\ NonZeroRows # 1..C.r /\ ~Singular(G) /\ ~Singular(G22Block)) =>
        /\ reg # NoVal
        /\ ~Singular(reg.Greg)
        /\ DCTransfer(reg.Greg, reg.Breg, reg.Lreg) = DCTransfer(G, B, L)

PreconditionErrors == {GError, G22Error}

C7_CheckedBeforeFactor ==
    \A t \in 1..Len(events) :
        events[t].op \in {"solve", "lu_factor"} =>
            \E u \in 1..(t - 1) :
                /\ events[u].op = "isSingular"
                /\ ~Singular(events[u].m)
                /\ \A v \in u..t : events[v].m \in {events[u].m, negate(events[u].m)}

\* C8: moments, regularize and the mna_ckt_fun constructor (and the isSingular
\* calls they make) leave every matrix passed to them as it was: G, C, B, L and
\* the returned Greg, Creg, Breg, Lreg never change once they exist.
C8_InputsReadOnly ==
    [][/\ G' = G /\ C' = C /\ B' = B /\ L' = L
       /\ (reg # NoVal => reg' = reg)]_vars

\* the constructor has run on a Creg that factorization in place would change
C8_Witness ==
    /\ pc = "odeint" /\ ckt # NoVal /\ reg # NoVal
    /\ reg.Creg = part.Creg
    /\ lu_factor_overwriting(reg.Creg).a # reg.Creg

\* C9: regularize works for every dimension n: whenever the algebraic block
\* G22 is nonsingular the call returns a reduced system of dimension k, the
\* number of rows of C that are not all-zero.
C9_AnyDimension ==
    (RegEnded /\ ~Singular(G22Block)) =>
        LET k == Cardinality(NonZeroRows)
        IN  /\ reg # NoVal
            /\ reg.Greg.r = k /\ reg.Greg.c = k
            /\ reg.Creg.r = k /\ reg.Creg.c = k
            /\ reg.Breg.r = k /\ reg.Breg.c = B.c
            /\ reg.Lreg.r = k /\ reg.Lreg.c = L.c

\* R, A.R, A.A.R, ...
RECURSIVE Krylov(_, _, _)
Krylov(A, R, i) == IF i = 0 THEN R ELSE dot(A, Krylov(A, R, i - 1))

\* C10: for nonsingular G and every N >= 0, moments returns a list of exactly
\* N matrices whose i-th element is L^T . A^i . R, where A is the solution of
\* G.A = -C and R the solution of G.R = B (element 0 is L^T.G^-1.B; N = 0
\* gives the empty list); it raises only when G is singular.
C10_Moments ==
    /\ mom # NoVal =>
         /\ Len(mom.list) = N
         /\ dot(G, mom.A) = negate(C)
         /\ dot(G, mom.R) = B
         /\ \A i \in 1..N :
              mom.list[i] = dot(transpose(L), Krylov(mom.A, mom.R, i - 1))
    /\ (pc = "failed" /\ exc = GError) => Singular(G)
    /\ (pc = "print_moments") => mom # NoVal /\ ~Singular(G)

\* two moments returned, the second one not zero
C10_Witness ==
    /\ pc = "print_moments" /\ mom # NoVal /\ N >= 2 /\ Len(mom.list) = N
    /\ mom.list[1] = DCTransfer(G, B, L)
    /\ mom.list[2] # zeros(L.c, B.c)
    /\ mom.list[2] # mom.list[1]

====
